---- MODULE Spec2Model ----
(***************************************************************************)
(* Model of packages/uikit/src/components/root.ts: createRoot, destroyRoot,*)
(* createDeferredRequestLayoutCalculation, createSizeTranslator and        *)
(* computeRootMatrix, together with the frame tick that drives the root's  *)
(* onFrameSet and the setProperties call of the component wrappers.        *)
(*                                                                         *)
(* Numbers.  pixelSize is kept in thousandths (0.002 is 2), sizes are      *)
(* integers, and every size / pixelSize pair of the model divides exactly, *)
(* so s / p is (s * PixelScale) \div p.  The alignment factors (+-0.5) are *)
(* kept doubled, so a root translation is kept times 2 * PixelScale.       *)
(***************************************************************************)
EXTENDS Integers, Sequences, FiniteSets, TLC

\* ------------------------------------------------------------------ bounds
\* Cap on the number of requestCalculateLayout calls counted between ticks.
MaxRequests == 2
\* Cap on the number of destroyRoot calls on the root.
MaxDestroy == 2

\* --------------------------------------------------------------- constants
\* root.ts:60  const DEFAULT_PIXEL_SIZE = 0.002   (in thousandths)
DEFAULT_PIXEL_SIZE == 2
\* thousandths per unit: the scale pixelSize values are kept in
PixelScale == 1000

\* ------------------------------------------------------------------ values
\* A property value: undefined, a number, or a reactive cell (Signal) that
\* the caller passed as the value.
Undef == [kind |-> "undefined", n |-> 0]
Num(x) == [kind |-> "number", n |-> x]
Sig == [kind |-> "signal", n |-> 0]
\* results of an IEEE division by zero
Infinity == [kind |-> "Infinity", n |-> 0]
NaN == [kind |-> "NaN", n |-> 0]

NoAnchor == "undefined"
NoNode == "none"

\* The layout nodes that share the root's deferred scheduler: the root's own
\* FlexNode and one descendant node that received requestCalculateLayout.
Nodes == {"root", "child"}

\* The five frame hooks createRoot registers, by the name root.ts gives them.
Hooks == {"onFrame", "panelGroupManager", "onCameraDistanceFrame", "onScrollFrame", "gylphGroupManager"}

\* Properties objects handed to createRoot and to setProperties.
Props(sx, sy, px, ax, ay, oc) ==
    [sizeX |-> sx, sizeY |-> sy, pixelSize |-> px, anchorX |-> ax, anchorY |-> ay, onClick |-> oc]

NoHandler == "undefined"

PropObjects ==
    { Props(Num(100), Undef, Num(2), NoAnchor, NoAnchor, NoHandler),
      Props(Sig, Num(200), Undef, "left", "top", "handlerA"),
      Props(Undef, Num(100), Num(4), "right", "bottom", "handlerB") }

\* defaultProperties may be undefined as a whole: no key is defined then.
DefaultObjects ==
    { Props(Undef, Undef, Undef, NoAnchor, NoAnchor, NoHandler),
      Props(Num(400), Sig, Undef, "right", "center", NoHandler) }

\* Values a reactive size cell takes.
SignalValues == {Undef, Num(400)}

\* Sizes the layout engine may publish for the root node.
LayoutSizes == {<<0, 0>>, <<100, 50>>, <<400, 200>>}

VARIABLES
    properties,              \* createRoot's argument, captured by its closures
    defaultProperties,       \* createRoot's argument, captured by its closures
    propertiesSignal,        \* root.ts:91
    defaultPropertiesSignal, \* root.ts:92
    reactiveSize,            \* value of the Signal passed as a size property
    onFrameSet,              \* root.ts:93, a Set: insertion-ordered, no duplicates
    subscriptions,           \* root.ts:77, teardown callbacks in push order
    requestedNode,           \* root.ts:228
    yogaNode,                \* FlexNode.yogaNode present, per node
    destroyed,               \* FlexNode.destroy() has run, per node
    size,                    \* node.size of the root node
    pc,                      \* "idle", "tick" (between hooks), "layout" (inside calculateLayout)
    tickIdx,                 \* position of the tick's iteration over onFrameSet
    ranThisTick,             \* hooks run by the current or last tick, in order
    tickCalls,               \* calculateLayout invocations of the current or last tick
    callHandle,              \* whether that node's handle was present at the invocation
    reqSinceTick,            \* requests with a present handle since the last tick began
    reqBefore,               \* the same count, for the window that ended at the current or last tick
    destroyCalls,            \* number of destroyRoot calls
    unsubscribed,            \* how often each teardown callback has run
    callNode,                \* the node calculateLayout was invoked on in that tick
    lastCall,                \* the last call made on the root from outside a tick, and whether it threw
    objectCurrent,           \* object.current is attached (not null)
    cameraPosition,          \* distance of getCamera()'s position from the root's plane
    cameraDistance,          \* ctx.cameraDistance, root.ts:122
    cameraRead,              \* the last run of onCameraDistanceFrame called getCamera()
    prevDistance,            \* ctx.cameraDistance when the current or last tick began
    panelDistance,           \* the camera distance panelGroupManager.onFrame last ordered by
    glyphDistance,           \* the camera distance gylphGroupManager.onFrame last ordered by
    window,                  \* the requests of the newest window: first, lost, re-entrant, closed
    pendingAtDestroy,        \* requestedNode when destroyRoot first ran
    observed,                \* the last setProperties: what a dependent of both signals saw, which cells changed
    components,              \* codegen: Object.keys(DefaultKit), part_001:8
    componentNames,          \* codegen: PascalCase names of the files of ../src, part_001:15
    cgIdx,                   \* codegen: position of the loop over components
    cgPc,                    \* codegen: "off", "loop", "failed" (Error thrown) or "done"
    imports,                 \* codegen: part_001:23
    conversionComponentMap,  \* codegen: part_001:22, entries in insertion order
    cgWritten                \* codegen: convert.ts has been written

vars == <<properties, defaultProperties, propertiesSignal, defaultPropertiesSignal,
          reactiveSize, onFrameSet, subscriptions, requestedNode, yogaNode, destroyed,
          size, pc, tickIdx, ranThisTick, tickCalls, callHandle, reqSinceTick, reqBefore,
          destroyCalls, unsubscribed, callNode, lastCall,
          objectCurrent, cameraPosition, cameraDistance, cameraRead, prevDistance,
          panelDistance, glyphDistance, window, pendingAtDestroy, observed,
          components, componentNames,
          cgIdx, cgPc, imports, conversionComponentMap, cgWritten>>

propVars == <<properties, defaultProperties, propertiesSignal, defaultPropertiesSignal, reactiveSize>>
tickVars == <<pc, tickIdx, ranThisTick, tickCalls, callNode, callHandle, reqBefore>>
rootVars == <<onFrameSet, subscriptions, destroyCalls, unsubscribed>>
camVars == <<objectCurrent, cameraPosition, cameraDistance, cameraRead, prevDistance,
             panelDistance, glyphDistance>>
cgVars == <<components, componentNames, cgIdx, cgPc, imports, conversionComponentMap, cgWritten>>

Range(s) == {s[i] : i \in 1..Len(s)}

\* Set.prototype.add: appends unless present.
SetAdd(s, x) == IF x \in Range(s) THEN s ELSE Append(s, x)

\* Set.prototype.delete: removes the element, keeps the order of the rest.
SetDelete(s, x) == SelectSeq(s, LAMBDA y : y # x)


\* ------------------------------------------------------ merged properties
\* readReactive: the value of a Signal, or the value itself.
readReactive(value) == IF value = Sig THEN reactiveSize ELSE value

\* JavaScript's s / p for a size s and a pixel size p (in thousandths).
Divide(s, p) ==
    IF p = 0 THEN (IF s = 0 THEN NaN ELSE Infinity)
    ELSE Num((s * PixelScale) \div p)

\* Faulty variant of createSizeTranslator: multiplies by the pixel size.
createSizeTranslator_multiplies(pixelSize, value) ==
    LET s == readReactive(value)
    IN  IF s = Undef THEN Undef ELSE Num((s.n * pixelSize) \div PixelScale)

\* The computed cell the size transformer adds to the target under `to`
\* (root.ts:255-261).
createSizeTranslator(pixelSize, value) ==
    LET s == readReactive(value)
    IN  IF s = Undef THEN Undef ELSE Divide(s.n, pixelSize)

\* Faulty variant of pixelSize: read from propertiesSignal at each use.
pixelSize_fromSignal ==
    IF propertiesSignal.pixelSize = Undef THEN DEFAULT_PIXEL_SIZE
    ELSE propertiesSignal.pixelSize.n

\* root.ts:79  const pixelSize = properties.pixelSize ?? DEFAULT_PIXEL_SIZE
pixelSize ==
    IF properties.pixelSize = Undef THEN DEFAULT_PIXEL_SIZE ELSE properties.pixelSize.n

\* The pixel size createRoot hands to each of its consumers: root.ts:82-83,
\* 114-115, 124, 157-158, 171, 186, 201.
pixelSizeUses ==
    [sizeTranslators |-> pixelSize,
     rootMatrix |-> pixelSize,
     panelGroupManager |-> pixelSize,
     scrollMatrix |-> pixelSize,
     clippingRect |-> pixelSize,
     gylphGroupManager |-> pixelSize,
     ctx |-> pixelSize]

\* MergedProperties: of the values added for a key, a later one wins over an
\* earlier one unless it resolves to undefined.
Later(earlier, later, undefined) == IF later # undefined THEN later ELSE earlier

\* new MergedProperties(transformers).addAll(first, second): every key of
\* first, then every key of second, is written through its transformer
\* (sizeX to width, sizeY to height) or added as it is.
MergedPropertiesAddAll(first, second) ==
    [width   |-> Later(createSizeTranslator(pixelSize, first.sizeX),
                       createSizeTranslator(pixelSize, second.sizeX), Undef),
     height  |-> Later(createSizeTranslator(pixelSize, first.sizeY),
                       createSizeTranslator(pixelSize, second.sizeY), Undef),
     anchorX |-> Later(first.anchorX, second.anchorX, NoAnchor),
     anchorY |-> Later(first.anchorY, second.anchorY, NoAnchor)]

\* Faulty variant of mergedProperties: the sources are added in the other order.
mergedProperties_defaultsLast == MergedPropertiesAddAll(properties, defaultProperties)

\* root.ts:95-99: the computed reads createRoot's arguments.
mergedProperties == MergedPropertiesAddAll(defaultProperties, properties)

\* root.ts:210-215: the computed clones the handlers of createRoot's argument.
handlers == [onClick |-> properties.onClick]

\* alignmentXMap and alignmentYMap of utils, doubled (+-0.5 is +-1).
alignmentXMap == [a \in {"left", "center", "right"} |->
    CASE a = "left" -> 1 [] a = "center" -> 0 [] a = "right" -> -1]
alignmentYMap == [a \in {"top", "center", "bottom"} |->
    CASE a = "top" -> -1 [] a = "center" -> 0 [] a = "bottom" -> 1]

\* Faulty variant of computeRootMatrix: an unset anchor falls back to the
\* first key of the alignment map instead of "center".
computeRootMatrix_defaultFirstKey(anchorX, anchorY, sz, p) ==
    << alignmentXMap[IF anchorX = NoAnchor THEN "left" ELSE anchorX] * sz[1] * p,
       alignmentYMap[IF anchorY = NoAnchor THEN "top" ELSE anchorY] * sz[2] * p >>

\* The translation computeRootMatrix premultiplies (root.ts:284-288), as
\* <<x, y>> times 2 * PixelScale.
computeRootMatrix(anchorX, anchorY, sz, p) ==
    << alignmentXMap[IF anchorX = NoAnchor THEN "center" ELSE anchorX] * sz[1] * p,
       alignmentYMap[IF anchorY = NoAnchor THEN "center" ELSE anchorY] * sz[2] * p >>

\* root.ts:115
rootMatrix == computeRootMatrix(mergedProperties.anchorX, mergedProperties.anchorY, size, pixelSize)

\* ------------------------------------------------------------- createRoot
\* Faulty variant of createRootOnFrameSet: the deferred layout hook is
\* registered after the other hooks.
createRootOnFrameSet_layoutLast ==
    SetAdd(SetAdd(SetAdd(SetAdd(SetAdd(<<>>,
        "panelGroupManager"), "onCameraDistanceFrame"),
        "onScrollFrame"), "gylphGroupManager"), "onFrame")

\* Faulty variant of createRootSubscriptions: the deferred layout hook's
\* deletion is not pushed.
createRootSubscriptions_noLayoutTeardown ==
    <<"node.destroy", "panelGroupManager", "onCameraDistanceFrame",
      "onScrollFrame", "gylphGroupManager">>

\* Faulty variant of createRootSubscriptions: the scroll hook's deletion is
\* not pushed.
createRootSubscriptions_noScrollTeardown ==
    <<"onFrame", "node.destroy", "panelGroupManager", "onCameraDistanceFrame",
      "gylphGroupManager">>

\* Faulty variant of createRootOnFrameSet: the camera-distance hook is added
\* before the panel group manager's hook.
createRootOnFrameSet_cameraFirst ==
    SetAdd(SetAdd(SetAdd(SetAdd(SetAdd(<<>>,
        "onFrame"), "onCameraDistanceFrame"), "panelGroupManager"),
        "onScrollFrame"), "gylphGroupManager")

\* The frame hooks in the order createRoot adds them to onFrameSet:
\* root.ts:101 (237), 125, 139, 184, 187.
createRootOnFrameSet ==
    SetAdd(SetAdd(SetAdd(SetAdd(SetAdd(<<>>,
        "onFrame"), "panelGroupManager"), "onCameraDistanceFrame"),
        "onScrollFrame"), "gylphGroupManager")

\* The teardown callbacks createRoot pushes itself, in push order: the
\* deletion of each hook (named by the hook) and the root node's destroy.
\* root.ts:101 (238), 112, 126, 140, 185, 188.
createRootSubscriptions ==
    <<"onFrame", "node.destroy", "panelGroupManager", "onCameraDistanceFrame",
      "onScrollFrame", "gylphGroupManager">>

Teardowns == Hooks \cup {"node.destroy"}

\* The source line of each hook's onFrameSet.add call in createRoot.
RegistrationLine ==
    [h \in Hooks |->
        CASE h = "onFrame" -> 101
          [] h = "panelGroupManager" -> 125
          [] h = "onCameraDistanceFrame" -> 139
          [] h = "onScrollFrame" -> 184
          [] h = "gylphGroupManager" -> 187]

NoCall == [op |-> "none", node |-> NoNode, threw |-> FALSE]

NoWindow == [first |-> NoNode, reentrant |-> FALSE, lost |-> NoNode, closed |-> TRUE]

\* Distances of the camera from the root's plane.
CameraPositions == {1, 2}

\* The codegen script is not running.
codegenIdle ==
    /\ components = <<>>
    /\ componentNames = <<>>
    /\ cgIdx = 1
    /\ cgPc = "off"
    /\ imports = <<>>
    /\ conversionComponentMap = <<>>
    /\ cgWritten = FALSE

\* createRoot(p, d, ...) has returned.
createRoot(p, d) ==
    /\ properties = p
    /\ defaultProperties = d
    /\ propertiesSignal = properties
    /\ defaultPropertiesSignal = defaultProperties
    /\ reactiveSize \in SignalValues
    /\ onFrameSet = createRootOnFrameSet
    /\ subscriptions = createRootSubscriptions
    /\ requestedNode = NoNode
    /\ yogaNode = [n \in Nodes |-> FALSE]
    /\ destroyed = [n \in Nodes |-> FALSE]
    /\ size = <<0, 0>>
    /\ pc = "idle"
    /\ tickIdx = 0
    /\ ranThisTick = <<>>
    /\ tickCalls = 0
    /\ callNode = NoNode
    /\ callHandle = FALSE
    /\ reqSinceTick = 0
    /\ reqBefore = 0
    /\ destroyCalls = 0
    /\ unsubscribed = [t \in Teardowns |-> 0]
    /\ lastCall = NoCall
    /\ objectCurrent = FALSE
    /\ cameraPosition = 1
    /\ cameraDistance = 0
    /\ cameraRead = FALSE
    /\ prevDistance = 0
    /\ panelDistance = 0
    /\ glyphDistance = 0
    /\ window = NoWindow
    /\ pendingAtDestroy = NoNode
    /\ observed = [seen |-> <<>>, changed |-> <<FALSE, FALSE>>]

\* The root of the specification's scenario {sizeX: 100, pixelSize: 0.002},
\* created without default properties; none of its properties is a signal.
Init ==
    /\ createRoot(Props(Num(100), Undef, Num(2), NoAnchor, NoAnchor, NoHandler),
                  Props(Undef, Undef, Undef, NoAnchor, NoAnchor, NoHandler))
    /\ reactiveSize = Undef
    /\ codegenIdle

\* A root created from any of the properties objects.
InitProps ==
    /\ \E p \in PropObjects, d \in DefaultObjects : createRoot(p, d)
    /\ codegenIdle

\* The record of the requests of one window, from one run of the deferred
\* hook to the next, after a call for `node`.  A call counts when the node's
\* engine handle is present.  The record holds the first such call, whether
\* it was made from inside calculateLayout, and the last node that was
\* requested while another node was pending; a run of the hook closes the
\* window, and the first counted call after it opens a new one.
Requested(node) ==
    IF ~yogaNode[node] THEN window
    ELSE [first |-> IF window.closed THEN node ELSE window.first,
          reentrant |-> IF window.closed THEN pc = "layout" ELSE window.reentrant,
          lost |-> IF requestedNode \notin {NoNode, node} THEN node
                   ELSE IF window.closed THEN NoNode ELSE window.lost,
          closed |-> FALSE]

\* Faulty variant of requestCalculateLayout: a call made from inside
\* calculateLayout is dropped.
requestCalculateLayout_dropsReentrant(node) ==
    /\ pc \in {"idle", "layout"}
    /\ yogaNode[node] => reqSinceTick < MaxRequests
    /\ requestedNode' =
          IF requestedNode # NoNode \/ ~yogaNode[node] \/ pc = "layout"
          THEN requestedNode ELSE node
    /\ reqSinceTick' = IF yogaNode[node] THEN reqSinceTick + 1 ELSE reqSinceTick
    /\ lastCall' = [op |-> "requestCalculateLayout", node |-> node, threw |-> FALSE]
    /\ window' = Requested(node)
    /\ UNCHANGED <<camVars, cgVars, observed, pendingAtDestroy,
                   propVars, tickVars, rootVars, yogaNode, destroyed, size>>

\* Faulty variant of requestCalculateLayout: the last requester wins.
requestCalculateLayout_lastWins(node) ==
    /\ pc \in {"idle", "layout"}
    /\ yogaNode[node] => reqSinceTick < MaxRequests
    /\ requestedNode' = IF ~yogaNode[node] THEN requestedNode ELSE node
    /\ reqSinceTick' = IF yogaNode[node] THEN reqSinceTick + 1 ELSE reqSinceTick
    /\ lastCall' = [op |-> "requestCalculateLayout", node |-> node, threw |-> FALSE]
    /\ window' = Requested(node)
    /\ UNCHANGED <<camVars, cgVars, observed, pendingAtDestroy,
                   propVars, tickVars, rootVars, yogaNode, destroyed, size>>

\* Faulty variant of requestCalculateLayout: the engine handle is not checked.
requestCalculateLayout_noHandleCheck(node) ==
    /\ pc \in {"idle", "layout"}
    /\ yogaNode[node] => reqSinceTick < MaxRequests
    /\ requestedNode' = IF requestedNode # NoNode THEN requestedNode ELSE node
    /\ reqSinceTick' = IF yogaNode[node] THEN reqSinceTick + 1 ELSE reqSinceTick
    /\ lastCall' = [op |-> "requestCalculateLayout", node |-> node, threw |-> FALSE]
    /\ window' = Requested(node)
    /\ UNCHANGED <<camVars, cgVars, observed, pendingAtDestroy,
                   propVars, tickVars, rootVars, yogaNode, destroyed, size>>

\* Variant of requestCalculateLayout that asserts its frame hook is registered.
requestCalculateLayout_asserts(node) ==
    /\ pc \in {"idle", "layout"}
    /\ yogaNode[node] => reqSinceTick < MaxRequests
    /\ IF "onFrame" \in Range(onFrameSet)
         THEN /\ requestedNode' =
                    IF requestedNode # NoNode \/ ~yogaNode[node] THEN requestedNode ELSE node
              /\ reqSinceTick' = IF yogaNode[node] THEN reqSinceTick + 1 ELSE reqSinceTick
              /\ lastCall' = [op |-> "requestCalculateLayout", node |-> node, threw |-> FALSE]
              /\ window' = Requested(node)
         ELSE /\ lastCall' = [op |-> "requestCalculateLayout", node |-> node, threw |-> TRUE]
              /\ UNCHANGED <<requestedNode, reqSinceTick, window>>
    /\ UNCHANGED <<camVars, cgVars, observed, pendingAtDestroy,
                   propVars, tickVars, rootVars, yogaNode, destroyed, size>>

\* ------------------------------------------------ deferred layout request
\* The function createDeferredRequestLayoutCalculation returns (root.ts:239-244).
\* It may be called between ticks and re-entrantly from inside calculateLayout.
requestCalculateLayout(node) ==
    /\ pc \in {"idle", "layout"}
    /\ yogaNode[node] => reqSinceTick < MaxRequests
    /\ requestedNode' =
          IF requestedNode # NoNode \/ ~yogaNode[node] THEN requestedNode ELSE node
    /\ reqSinceTick' = IF yogaNode[node] THEN reqSinceTick + 1 ELSE reqSinceTick
    /\ lastCall' = [op |-> "requestCalculateLayout", node |-> node, threw |-> FALSE]
    /\ window' = Requested(node)
    /\ UNCHANGED <<camVars, cgVars, observed, pendingAtDestroy,
                   propVars, tickVars, rootVars, yogaNode, destroyed, size>>

\* ------------------------------------------------------------- frame tick
\* The host's per-frame call: for (const onFrame of onFrameSet) onFrame(delta).
\* A JavaScript Set iterates in insertion order.
FrameStart ==
    /\ pc = "idle"
    /\ pc' = "tick"
    /\ tickIdx' = 1
    /\ ranThisTick' = <<>>
    /\ tickCalls' = 0
    /\ callNode' = NoNode
    /\ callHandle' = FALSE
    /\ reqBefore' = reqSinceTick
    /\ reqSinceTick' = 0
    /\ prevDistance' = cameraDistance
    /\ UNCHANGED <<cgVars, observed, pendingAtDestroy, window, objectCurrent, cameraPosition, cameraDistance,
                   cameraRead, panelDistance, glyphDistance,
                   propVars, rootVars, requestedNode, yogaNode, destroyed, size, lastCall>>

\* The hook the tick runs next.
NextHook(h) ==
    /\ pc = "tick"
    /\ tickIdx <= Len(onFrameSet)
    /\ onFrameSet[tickIdx] = h

FrameEnd ==
    /\ pc = "tick"
    /\ tickIdx > Len(onFrameSet)
    /\ pc' = "idle"
    /\ UNCHANGED <<camVars, cgVars, observed, window, pendingAtDestroy,
                   propVars, rootVars, requestedNode, yogaNode, destroyed, size, lastCall,
                   tickIdx, ranThisTick, tickCalls, callNode, callHandle, reqBefore, reqSinceTick>>

\* Faulty variant of onFrame: the pending slot is not cleared.
onFrame_keepsSlot ==
    /\ NextHook("onFrame")
    /\ ranThisTick' = Append(ranThisTick, "onFrame")
    /\ IF requestedNode = NoNode
         THEN /\ tickIdx' = tickIdx + 1
              /\ UNCHANGED <<pc, requestedNode, tickCalls, callNode, callHandle>>
         ELSE /\ callNode' = requestedNode
              /\ callHandle' = yogaNode[requestedNode]
              /\ tickCalls' = tickCalls + 1
              /\ pc' = "layout"
              /\ UNCHANGED <<tickIdx, requestedNode>>
    /\ window' = [window EXCEPT !.closed = TRUE]
    /\ UNCHANGED <<camVars, cgVars, observed, pendingAtDestroy,
                   propVars, rootVars, yogaNode, destroyed, size, lastCall, reqBefore, reqSinceTick>>

\* onFrame of createDeferredRequestLayoutCalculation (root.ts:229-236), up to
\* and including the call node.calculateLayout(); the slot is cleared first.
onFrame ==
    /\ NextHook("onFrame")
    /\ ranThisTick' = Append(ranThisTick, "onFrame")
    /\ IF requestedNode = NoNode
         THEN /\ tickIdx' = tickIdx + 1
              /\ UNCHANGED <<pc, requestedNode, tickCalls, callNode, callHandle>>
         ELSE /\ callNode' = requestedNode
              /\ callHandle' = yogaNode[requestedNode]
              /\ requestedNode' = NoNode
              /\ tickCalls' = tickCalls + 1
              /\ pc' = "layout"
              /\ UNCHANGED tickIdx
    /\ window' = [window EXCEPT !.closed = TRUE]
    /\ UNCHANGED <<camVars, cgVars, observed, pendingAtDestroy,
                   propVars, rootVars, yogaNode, destroyed, size, lastCall, reqBefore, reqSinceTick>>

\* node.calculateLayout() returns: one pass of the layout engine has published
\* the root node's size (a node without a handle has no engine node to lay out).
calculateLayoutReturn ==
    /\ pc = "layout"
    /\ pc' = "tick"
    /\ tickIdx' = tickIdx + 1
    /\ IF callNode = "root" /\ yogaNode["root"]
         THEN size' \in LayoutSizes
         ELSE UNCHANGED size
    /\ UNCHANGED <<camVars, cgVars, observed, window, pendingAtDestroy,
                   propVars, rootVars, requestedNode, yogaNode, destroyed, lastCall,
                   ranThisTick, tickCalls, callNode, callHandle, reqBefore, reqSinceTick>>

\* A hook whose body lies outside root.ts: it runs and returns.
RunHook(h) ==
    /\ NextHook(h)
    /\ ranThisTick' = Append(ranThisTick, h)
    /\ tickIdx' = tickIdx + 1
    /\ UNCHANGED <<cgVars, observed, window, pendingAtDestroy,
                   propVars, rootVars, requestedNode, yogaNode, destroyed, size, lastCall,
                   pc, tickCalls, callNode, callHandle, reqBefore, reqSinceTick>>

\* panelGroupManager.onFrame: orders its groups by ctx.cameraDistance.
panelGroupManagerOnFrame ==
    /\ RunHook("panelGroupManager")
    /\ panelDistance' = cameraDistance
    /\ UNCHANGED <<objectCurrent, cameraPosition, cameraDistance, cameraRead, prevDistance,
                   glyphDistance>>

\* Faulty variant of onCameraDistanceFrame: object.current is not checked.
onCameraDistanceFrame_noNullCheck ==
    /\ RunHook("onCameraDistanceFrame")
    /\ cameraDistance' = cameraPosition
    /\ cameraRead' = TRUE
    /\ UNCHANGED <<objectCurrent, cameraPosition, prevDistance, panelDistance, glyphDistance>>

\* onCameraDistanceFrame (root.ts:128-138).
onCameraDistanceFrame ==
    /\ RunHook("onCameraDistanceFrame")
    /\ IF ~objectCurrent
         THEN /\ cameraDistance' = 0
              /\ cameraRead' = FALSE
         ELSE /\ cameraDistance' = cameraPosition
              /\ cameraRead' = TRUE
    /\ UNCHANGED <<objectCurrent, cameraPosition, prevDistance, panelDistance, glyphDistance>>

onScrollFrame ==
    /\ RunHook("onScrollFrame")
    /\ UNCHANGED camVars

\* gylphGroupManager.onFrame: orders its groups by ctx.cameraDistance.
gylphGroupManagerOnFrame ==
    /\ RunHook("gylphGroupManager")
    /\ glyphDistance' = cameraDistance
    /\ UNCHANGED <<objectCurrent, cameraPosition, cameraDistance, cameraRead, prevDistance,
                   panelDistance>>

\* ------------------------------------------------------------------- host
schedVars == <<requestedNode, yogaNode, destroyed, size, reqSinceTick, lastCall,
               window, pendingAtDestroy>>

\* The host attaches the root's object: object.current = the object.
attachObject ==
    /\ pc = "idle"
    /\ ~objectCurrent
    /\ objectCurrent' = TRUE
    /\ UNCHANGED <<propVars, tickVars, rootVars, schedVars, cgVars, observed, cameraPosition,
                   cameraDistance, cameraRead, prevDistance, panelDistance, glyphDistance>>

\* The host detaches the root's object: object.current = null.
detachObject ==
    /\ pc = "idle"
    /\ objectCurrent
    /\ objectCurrent' = FALSE
    /\ UNCHANGED <<propVars, tickVars, rootVars, schedVars, cgVars, observed, cameraPosition,
                   cameraDistance, cameraRead, prevDistance, panelDistance, glyphDistance>>

\* The camera or the root moves between frames.
moveCamera(d) ==
    /\ pc = "idle"
    /\ d # cameraPosition
    /\ cameraPosition' = d
    /\ UNCHANGED <<propVars, tickVars, rootVars, schedVars, cgVars, observed, objectCurrent,
                   cameraDistance, cameraRead, prevDistance, panelDistance, glyphDistance>>

\* --------------------------------------------------------------- FlexNode
\* The layout engine has loaded and the node's engine handle is created.
yogaLoaded(node) ==
    /\ pc = "idle"
    /\ ~yogaNode[node] /\ ~destroyed[node]
    /\ yogaNode' = [yogaNode EXCEPT ![node] = TRUE]
    /\ UNCHANGED <<camVars, cgVars, observed, window, pendingAtDestroy,
                   propVars, tickVars, rootVars, requestedNode, destroyed, size, lastCall, reqSinceTick>>

\* FlexNode.destroy(): releases the engine handle.
FlexNodeDestroy(node, y) == [y EXCEPT ![node] = FALSE]

\* A descendant component unmounts and destroys its node.
destroyNode ==
    /\ pc = "idle"
    /\ ~destroyed["child"]
    /\ yogaNode' = FlexNodeDestroy("child", yogaNode)
    /\ destroyed' = [destroyed EXCEPT !["child"] = TRUE]
    /\ UNCHANGED <<camVars, cgVars, observed, window, pendingAtDestroy,
                   propVars, tickVars, rootVars, requestedNode, size, lastCall, reqSinceTick>>

\* ------------------------------------------------------------ destroyRoot
\* Running the teardown callbacks of a subscription list in order.
RECURSIVE RunTeardownsOnFrameSet(_, _)
RunTeardownsOnFrameSet(subs, set) ==
    IF subs = <<>> THEN set
    ELSE RunTeardownsOnFrameSet(Tail(subs),
            IF Head(subs) \in Hooks THEN SetDelete(set, Head(subs)) ELSE set)

\* How often a teardown callback occurs in a subscription list.
Occurrences(subs, t) == Cardinality({i \in 1..Len(subs) : subs[i] = t})

\* unsubscribeSubscriptions: calls every callback, then empties the list.
unsubscribeSubscriptions(subs) == <<>>

\* destroyRoot (root.ts:220-222).
destroyRoot ==
    /\ pc = "idle"
    /\ destroyCalls < MaxDestroy
    /\ destroyCalls' = destroyCalls + 1
    /\ onFrameSet' = RunTeardownsOnFrameSet(subscriptions, onFrameSet)
    /\ unsubscribed' = [t \in Teardowns |-> unsubscribed[t] + Occurrences(subscriptions, t)]
    /\ IF "node.destroy" \in Range(subscriptions)
         THEN /\ yogaNode' = FlexNodeDestroy("root", yogaNode)
              /\ destroyed' = [destroyed EXCEPT !["root"] = TRUE]
         ELSE UNCHANGED <<yogaNode, destroyed>>
    /\ subscriptions' = unsubscribeSubscriptions(subscriptions)
    /\ lastCall' = [op |-> "destroyRoot", node |-> NoNode, threw |-> FALSE]
    /\ pendingAtDestroy' = IF destroyCalls = 0 THEN requestedNode ELSE pendingAtDestroy
    /\ UNCHANGED <<camVars, cgVars, observed, window,
                   propVars, tickVars, requestedNode, size, reqSinceTick>>

\* ---------------------------------------------------------- setProperties
\* What a dependent that reads both signals sees while the two writes
\* `new[1]`, `new[2]` are made to cells holding `old[1]`, `old[2]`, one element
\* for each time it is re-evaluated.  A write of the value a cell already
\* holds notifies nobody.
\* Without a batch the dependent is re-evaluated after each write.
unbatched(old, new) ==
    (IF new[1] # old[1] THEN << <<new[1], old[2]>> >> ELSE <<>>)
    \o (IF new[2] # old[2] THEN << <<new[1], new[2]>> >> ELSE <<>>)

\* Inside batch(() => ...) notifications are held back until the callback
\* returns; the dependent is then re-evaluated once if a cell has changed.
batch(old, new) ==
    IF new # old THEN << <<new[1], new[2]>> >> ELSE <<>>

\* setProperties of the component wrapper: both signals written in one batch.
setProperties(p, d) ==
    /\ pc = "idle"
    /\ propertiesSignal' = p
    /\ defaultPropertiesSignal' = d
    /\ lastCall' = [op |-> "setProperties", node |-> NoNode, threw |-> FALSE]
    /\ observed' = [seen |-> batch(<<propertiesSignal, defaultPropertiesSignal>>, <<p, d>>),
                    changed |-> <<p # propertiesSignal, d # defaultPropertiesSignal>>]
    /\ UNCHANGED <<camVars, cgVars, window, pendingAtDestroy,
                   properties, defaultProperties, reactiveSize, tickVars, rootVars,
                   requestedNode, yogaNode, destroyed, size, reqSinceTick>>

\* The application writes the Signal it passed as a size property.
setReactiveSize(v) ==
    /\ pc = "idle"
    /\ v # reactiveSize
    /\ reactiveSize' = v
    /\ UNCHANGED <<camVars, cgVars, observed, window, pendingAtDestroy,
                   properties, defaultProperties, propertiesSignal, defaultPropertiesSignal,
                   tickVars, rootVars, requestedNode, yogaNode, destroyed, size, lastCall,
                   reqSinceTick>>

\* The operations on the scenario root.  Its host rewrites the properties and
\* passes the default properties on as they are; writes of both are part of
\* SpecProps.
Next ==
    \/ \E n \in Nodes : requestCalculateLayout(n)
    \/ FrameStart
    \/ onFrame
    \/ calculateLayoutReturn
    \/ panelGroupManagerOnFrame
    \/ onCameraDistanceFrame
    \/ onScrollFrame
    \/ gylphGroupManagerOnFrame
    \/ FrameEnd
    \/ \E n \in Nodes : yogaLoaded(n)
    \/ destroyNode
    \/ destroyRoot
    \/ \E p \in PropObjects : setProperties(p, defaultPropertiesSignal)

Spec == Init /\ [][Next]_vars

\* The property pipeline of a root that stays alive: any properties at
\* construction, property and signal writes, and the layout passes of the
\* root node that publish its size.
NextProps ==
    \/ \E p \in PropObjects, d \in DefaultObjects : setProperties(p, d)
    \/ \E v \in SignalValues : setReactiveSize(v)
    \/ yogaLoaded("root")
    \/ requestCalculateLayout("root")
    \/ FrameStart
    \/ onFrame
    \/ calculateLayoutReturn
    \/ panelGroupManagerOnFrame
    \/ onCameraDistanceFrame
    \/ onScrollFrame
    \/ gylphGroupManagerOnFrame
    \/ FrameEnd

SpecProps == InitProps /\ [][NextProps]_vars

\* The frame hooks of a root whose object is attached and detached by the
\* host while the camera moves; no layout is requested.
NextFrame ==
    \/ attachObject
    \/ detachObject
    \/ \E d \in CameraPositions : moveCamera(d)
    \/ FrameStart
    \/ onFrame
    \/ panelGroupManagerOnFrame
    \/ onCameraDistanceFrame
    \/ onScrollFrame
    \/ gylphGroupManagerOnFrame
    \/ FrameEnd
    \/ destroyRoot

SpecFrame == Init /\ [][NextFrame]_vars

\* ----------------------------------------------------------------- codegen
\* The script that writes convert.ts (part_001).  Names are sequences of
\* characters.
MaxComponents == 3
MaxFiles == 2

Defaults == <<"D", "e", "f", "a", "u", "l", "t", "s">>
Colors == <<"c", "o", "l", "o", "r", "s">>
Tabs == <<"T", "a", "b", "s">>
List == <<"L", "i", "s", "t">>
TabsList == Tabs \o List
Card == <<"C", "a", "r", "d">>
Badge == <<"B", "a", "d", "g", "e">>

\* Exports of components.js and PascalCase file names of ../src.
Exports == {Defaults, Colors, Tabs, TabsList, Card, Badge}
FileNames == {Tabs, List, Card}

LowerCase == <<"a", "b", "c", "d", "e", "f", "g", "i", "l", "o", "r", "s", "t", "u">>
UpperCase == <<"A", "B", "C", "D", "E", "F", "G", "I", "L", "O", "R", "S", "T", "U">>

\* String.prototype.toUpperCase on one character.
toUpperCase(ch) ==
    IF \E i \in 1..Len(LowerCase) : LowerCase[i] = ch
    THEN UpperCase[CHOOSE i \in 1..Len(LowerCase) : LowerCase[i] = ch]
    ELSE ch

\* String.prototype.charAt: the empty string when the index is out of range.
charAt(str, i) == IF i + 1 \in 1..Len(str) THEN str[i + 1] ELSE ""

\* String.prototype.includes: `name` occurs in `str` as a substring.
includes(str, name) ==
    \E i \in 0..(Len(str) - Len(name)) : SubSeq(str, i + 1, i + Len(name)) = name

\* Array.prototype.find: the position of the first element that satisfies the
\* test of part_001:36, 0 when there is none (find returns undefined).
find(names, component) ==
    IF \E i \in 1..Len(names) : includes(component, names[i])
    THEN CHOOSE i \in 1..Len(names) :
            /\ includes(component, names[i])
            /\ \A j \in 1..(i - 1) : ~includes(component, names[j])
    ELSE 0

\* The test of part_001:30.
Skipped(component) ==
    \/ component = Defaults
    \/ toUpperCase(charAt(component, 0)) # charAt(component, 0)

\* Sequences of at most n distinct elements of S.
DistinctSeqs(S, n) ==
    UNION {{q \in [1..k -> S] : \A i, j \in 1..k : i # j => q[i] # q[j]} : k \in 0..n}

\* conversionComponentMap after the push of part_001:40-57: `component` is
\* appended to the codes of `name`, in a new last entry if `name` has none.
MapPush(map, name, component) ==
    IF \E i \in 1..Len(map) : map[i].name = name
    THEN [i \in 1..Len(map) |->
            IF map[i].name = name
            THEN [map[i] EXCEPT !.codes = Append(@, component)]
            ELSE map[i]]
    ELSE Append(map, [name |-> name, codes |-> <<component>>])

rootState == <<propVars, tickVars, rootVars, schedVars, camVars, observed>>

\* The script starts: the module is loaded and the directory is read.
InitCodegen ==
    /\ createRoot(Props(Num(100), Undef, Num(2), NoAnchor, NoAnchor, NoHandler),
                  Props(Undef, Undef, Undef, NoAnchor, NoAnchor, NoHandler))
    /\ reactiveSize = Undef
    /\ components \in DistinctSeqs(Exports, MaxComponents)
    /\ componentNames \in DistinctSeqs(FileNames, MaxFiles)
    /\ cgIdx = 1
    /\ cgPc = "loop"
    /\ imports = <<>>
    /\ conversionComponentMap = <<>>
    /\ cgWritten = FALSE

\* Faulty variant of the loop body: a component without a component name is
\* passed over.
codegenLoop_skipsUnmapped ==
    /\ cgPc = "loop"
    /\ cgIdx <= Len(components)
    /\ LET component == components[cgIdx]
           found == find(componentNames, component)
       IN  IF Skipped(component)
           THEN /\ cgIdx' = cgIdx + 1
                /\ UNCHANGED <<cgPc, imports, conversionComponentMap>>
           ELSE /\ imports' = Append(imports, component)
                /\ cgIdx' = cgIdx + 1
                /\ conversionComponentMap' =
                       IF found = 0 THEN conversionComponentMap
                       ELSE MapPush(conversionComponentMap, componentNames[found], component)
                /\ UNCHANGED cgPc
    /\ UNCHANGED <<rootState, components, componentNames, cgWritten>>

\* One iteration of the loop over components (part_001:29-58).
codegenLoop ==
    /\ cgPc = "loop"
    /\ cgIdx <= Len(components)
    /\ LET component == components[cgIdx]
           found == find(componentNames, component)
       IN  IF Skipped(component)
           THEN /\ cgIdx' = cgIdx + 1
                /\ UNCHANGED <<cgPc, imports, conversionComponentMap>>
           ELSE /\ imports' = Append(imports, component)
                /\ IF found = 0
                   THEN /\ cgPc' = "failed"
                        /\ UNCHANGED <<cgIdx, conversionComponentMap>>
                   ELSE /\ conversionComponentMap' =
                               MapPush(conversionComponentMap, componentNames[found], component)
                        /\ cgIdx' = cgIdx + 1
                        /\ UNCHANGED cgPc
    /\ UNCHANGED <<rootState, components, componentNames, cgWritten>>

\* writeFileSync after the loop (part_001:60-71).
writeFileSync ==
    /\ cgPc = "loop"
    /\ cgIdx > Len(components)
    /\ cgWritten' = TRUE
    /\ cgPc' = "done"
    /\ UNCHANGED <<rootState, components, componentNames, cgIdx, imports, conversionComponentMap>>

NextCodegen ==
    \/ codegenLoop
    \/ writeFileSync

SpecCodegen == InitCodegen /\ [][NextCodegen]_vars

\* ===================================================================== C1
\* C1 as stated: whenever a frame tick has ended, it invoked calculateLayout
\* exactly once if at least one request with a present engine handle was made
\* since the tick before it, and zero times if none was made.
C1_EveryTickCoalesces ==
    pc = "idle" => /\ reqBefore >= 1 => tickCalls = 1
                   /\ reqBefore = 0 => tickCalls = 0

\* C1, amended: the same, while the deferred hook is registered in onFrameSet
\* (the root has not been destroyed).
C1_TickCoalescesWhileRegistered ==
    (pc = "idle" /\ "onFrame" \in Range(onFrameSet)) =>
        /\ reqBefore >= 1 => tickCalls = 1
        /\ reqBefore = 0 => tickCalls = 0

\* Two requests were coalesced into the one recompute of the last tick.
C1_Witness ==
    /\ pc = "idle"
    /\ "onFrame" \in Range(onFrameSet)
    /\ reqBefore >= 2
    /\ tickCalls = 1

\* ===================================================================== C2
\* C2 as stated: a tick never invokes calculateLayout on a node whose engine
\* handle has been released.
C2_NoLayoutOnReleasedNode ==
    callNode # NoNode => callHandle

\* ===================================================================== C3
\* C3: after destroyRoot the onFrameSet holds none of the hooks createRoot
\* added (it is as empty as it was constructed), each hook's deletion has run
\* exactly once, destroyRoot did not throw, and a further destroyRoot changes
\* nothing.
C3_AfterDestroy ==
    destroyCalls >= 1 =>
        /\ onFrameSet = <<>>
        /\ \A h \in Hooks : unsubscribed[h] = 1
        /\ lastCall.op = "destroyRoot" => ~lastCall.threw

C3_SecondDestroyNoOp ==
    (destroyRoot /\ destroyCalls >= 1) =>
        UNCHANGED <<onFrameSet, subscriptions, unsubscribed, yogaNode, destroyed,
                    requestedNode, size, propVars>>

C3_DestroyTwice == [](C3_AfterDestroy) /\ [][C3_SecondDestroyNoOp]_vars

\* destroyRoot has been called twice.
C3_Witness ==
    /\ destroyCalls = 2
    /\ lastCall.op = "destroyRoot"
    /\ onFrameSet = <<>>

\* ===================================================================== C4
\* C4 as stated: the root's merged properties and handlers are those of the
\* objects currently held by propertiesSignal and defaultPropertiesSignal.
C4_MergedFollowsSignals ==
    /\ mergedProperties = MergedPropertiesAddAll(defaultPropertiesSignal, propertiesSignal)
    /\ handlers = [onClick |-> propertiesSignal.onClick]

\* ===================================================================== C5
\* The value a source gives for a merged key, resolved; undefined if the
\* source does not define the key.
SourceValue(source, key) ==
    CASE key = "anchorX" -> source.anchorX
      [] key = "anchorY" -> source.anchorY
      [] key = "width" -> readReactive(source.sizeX)
      [] key = "height" -> readReactive(source.sizeY)

Undefined(key) == IF key \in {"anchorX", "anchorY"} THEN NoAnchor ELSE Undef

MergedKeys == {"anchorX", "anchorY", "width", "height"}

\* The source whose value the merged key must show: the explicit properties
\* where they define the key, the default properties otherwise.
WinningValue(key) ==
    IF SourceValue(properties, key) # Undefined(key)
      THEN SourceValue(properties, key)
      ELSE SourceValue(defaultProperties, key)

\* The merged value of a key, in the units of the source value.
MergedSourceUnits(key) ==
    LET v == mergedProperties[key]
    IN  IF key \in {"anchorX", "anchorY"} \/ v.kind # "number" THEN v
        ELSE Num((v.n * pixelSize) \div PixelScale)

C5_HighestPrecedenceWins ==
    \A key \in MergedKeys : MergedSourceUnits(key) = WinningValue(key)

C5_LowerSourceChangeInvisible ==
    \A key \in MergedKeys :
        (/\ SourceValue(properties, key) # Undefined(key)
         /\ SourceValue(properties, key)' = SourceValue(properties, key))
        => mergedProperties[key]' = mergedProperties[key]

\* C5: the merged value of every key is the value of the explicit properties
\* where they define the key and of the default properties otherwise, and no
\* step that leaves a defined explicit value alone changes the merged value.
C5_Precedence == [](C5_HighestPrecedenceWins) /\ [][C5_LowerSourceChangeInvisible]_vars

\* Both sources define anchorX and height differently, the default height is
\* a Signal that holds a value, and new default properties have been set.
C5_Witness ==
    /\ properties.anchorX = "left" /\ defaultProperties.anchorX = "right"
    /\ properties.sizeY = Num(200) /\ defaultProperties.sizeY = Sig
    /\ reactiveSize = Num(400)
    /\ lastCall.op = "setProperties"
    /\ defaultPropertiesSignal # defaultProperties
    /\ mergedProperties.anchorX = "left"

\* ===================================================================== C6
\* C6: the merged width (height) is s / p for the winning sizeX (sizeY) value
\* s and the pixel size p of createRoot's properties, with p = 0.002 when it
\* is unset; sizeX 100 with pixel size 0.002 gives 50000; an undefined s gives
\* an undefined width (height).
C6_SizeOverPixelSize ==
    LET p == IF properties.pixelSize = Undef THEN 2 ELSE properties.pixelSize.n
    IN  \A key \in {"width", "height"} :
          LET s == WinningValue(key)
              w == mergedProperties[key]
          IN  /\ s = Undef => w = Undef
              /\ (s # Undef /\ p # 0) =>
                    /\ w.kind = "number"
                    /\ w.n * p = s.n * 1000
              /\ (s = Num(100) /\ p = 2) => w = Num(50000)

\* sizeX 100 at pixel size 0.002, and a height that resolves to undefined.
C6_Witness ==
    /\ properties.sizeX = Num(100)
    /\ properties.pixelSize = Num(2)
    /\ mergedProperties.width = Num(50000)
    /\ mergedProperties.height = Undef

\* ===================================================================== C7
Abs(x) == IF x < 0 THEN -x ELSE x

\* C7: for the root's size (W, H) and pixel size p the translations for the
\* anchors "left" and "right" differ by W * p along X, those for "top" and
\* "bottom" by H * p along Y, and an unset anchor translates like "center".
\* (Translations are kept times 2 * PixelScale, p in thousandths.)
C7_AnchorOffsets ==
    \A ax \in {NoAnchor, "left", "center", "right"}, ay \in {NoAnchor, "top", "center", "bottom"} :
        /\ Abs(computeRootMatrix("left", ay, size, pixelSize)[1]
               - computeRootMatrix("right", ay, size, pixelSize)[1]) = 2 * size[1] * pixelSize
        /\ Abs(computeRootMatrix(ax, "top", size, pixelSize)[2]
               - computeRootMatrix(ax, "bottom", size, pixelSize)[2]) = 2 * size[2] * pixelSize
        /\ computeRootMatrix(NoAnchor, ay, size, pixelSize) = computeRootMatrix("center", ay, size, pixelSize)
        /\ computeRootMatrix(ax, NoAnchor, size, pixelSize) = computeRootMatrix(ax, "center", size, pixelSize)

\* A layout pass has given the root a size, it is anchored right and its
\* pixel size is not the default.
C7_Witness ==
    /\ size = <<400, 200>>
    /\ pixelSize = 4
    /\ mergedProperties.anchorX = "right"
    /\ rootMatrix = <<-1600, 800>>

C8_SilentStep ==
    destroyCalls >= 1 =>
        /\ \A n \in Nodes :
              requestCalculateLayout(n) =>
                  /\ ~lastCall'.threw
                  /\ requestedNode' =
                        IF requestedNode = NoNode /\ yogaNode[n] THEN n ELSE requestedNode
        /\ \A p \in PropObjects, d \in DefaultObjects :
              setProperties(p, d) =>
                  /\ ~lastCall'.threw
                  /\ propertiesSignal' = p /\ defaultPropertiesSignal' = d

C9_NoHandleNoOp ==
    \A n \in Nodes :
        (requestCalculateLayout(n) /\ ~yogaNode[n]) =>
            /\ requestedNode' = requestedNode
            /\ ~lastCall'.threw

C9_RequestWithoutHandle == [][C9_NoHandleNoOp]_vars

\* A request for a node whose handle was never created was made, and the tick
\* after it made no layout call.
C9_Witness ==
    /\ lastCall.op = "requestCalculateLayout"
    /\ ~yogaNode[lastCall.node] /\ ~destroyed[lastCall.node]
    /\ pc = "idle"
    /\ Len(ranThisTick) = 5
    /\ requestedNode = NoNode
    /\ tickCalls = 0

\* ==================================================================== C10
LayoutConsumers == {"panelGroupManager", "onScrollFrame", "gylphGroupManager"}

Position(seq, x) == CHOOSE i \in 1..Len(seq) : seq[i] = x

\* C10: the hooks a tick has run so far ran in the order createRoot registered
\* them, a tick that has gone through the set has run every registered hook,
\* and the deferred layout hook has run, and its layout pass has returned,
\* before any hook that consumes layout output runs.
C10_HookOrder ==
    /\ \A i, j \in 1..Len(ranThisTick) :
          i < j => RegistrationLine[ranThisTick[i]] < RegistrationLine[ranThisTick[j]]
    /\ (pc = "tick" /\ tickIdx > Len(onFrameSet)) => ranThisTick = onFrameSet
    /\ \A h \in LayoutConsumers :
          h \in Range(ranThisTick) =>
              /\ "onFrame" \in Range(ranThisTick)
              /\ Position(ranThisTick, "onFrame") < Position(ranThisTick, h)
              /\ pc # "layout"

\* A tick that made a layout call has run all five hooks.
C10_Witness ==
    /\ pc = "tick"
    /\ Len(ranThisTick) = 5
    /\ tickCalls = 1

\* ==================================================================== C11
\* The step is a run of hook h by the tick.
HookRuns(h) ==
    /\ h \notin Range(ranThisTick)
    /\ h \in Range(ranThisTick')

C11_HookStep ==
    /\ (HookRuns("onCameraDistanceFrame") /\ ~objectCurrent) =>
          /\ cameraDistance' = 0
          /\ ~cameraRead'
          /\ pc' = "tick"
          /\ tickIdx' = tickIdx + 1
    /\ (cameraDistance' # cameraDistance /\ cameraDistance' # 0) =>
          /\ HookRuns("onCameraDistanceFrame")
          /\ objectCurrent

\* C11: a run of the camera-distance hook while object.current is null sets
\* cameraDistance to 0 without reading the camera, and returns, so that the
\* tick goes on to the next hook; cameraDistance is 0 at construction and
\* only a run of the hook with an attached object makes it non-zero.
C11_NullObjectGivesZero ==
    /\ cameraDistance = 0
    /\ [][C11_HookStep]_vars

\* The hook has run with a null object in a tick that began with a non-zero
\* distance, and has reset the distance to 0.
C11_Witness ==
    /\ pc = "tick"
    /\ "onCameraDistanceFrame" \in Range(ranThisTick)
    /\ ~objectCurrent
    /\ prevDistance # 0
    /\ cameraDistance = 0
    /\ ~cameraRead

\* ==================================================================== C12
\* The positions of the exported components that pass the test of the loop
\* and contain no component name.
Unmapped ==
    {i \in 1..Len(components) :
        /\ ~Skipped(components[i])
        /\ \A k \in 1..Len(componentNames) : ~includes(components[i], componentNames[k])}

\* The components the loop does not skip, in export order.
Converted == SelectSeq(components, LAMBDA c : ~Skipped(c))

\* C12: when some exported component other than 'Defaults' and the
\* lower-case exports contains no component name, the loop never gets past
\* the first such component, a run that has stopped with the Error stopped
\* at that component, and convert.ts is not written; convert.ts is written
\* only after the loop has mapped every such component.
C12_UnmappedComponentFails ==
    /\ Unmapped # {} =>
          /\ ~cgWritten
          /\ cgPc \in {"loop", "failed"}
          /\ \A i \in Unmapped : cgIdx <= i
    /\ cgPc = "failed" =>
          /\ cgIdx \in Unmapped
          /\ ~cgWritten
    /\ cgWritten =>
          /\ cgPc = "done"
          /\ imports = Converted
          /\ \A i \in 1..Len(Converted) :
                \E e \in 1..Len(conversionComponentMap) :
                    /\ includes(Converted[i], conversionComponentMap[e].name)
                    /\ Converted[i] \in Range(conversionComponentMap[e].codes)

\* The run has failed at a component after it has mapped another one.
C12_Witness ==
    /\ cgPc = "failed"
    /\ cgIdx > 1
    /\ conversionComponentMap # <<>>
    /\ ~cgWritten

\* ==================================================================== C13
\* A call while a request is pending leaves the pending node unchanged.
C13_PendingKept ==
    \A n \in Nodes :
        (requestCalculateLayout(n) /\ requestedNode # NoNode) =>
            requestedNode' = requestedNode

C13_FirstPending ==
    /\ ~window.closed => requestedNode = window.first
    /\ tickCalls <= 1
    /\ (window.closed /\ tickCalls = 1) =>
          /\ callNode = window.first
          /\ window.lost # callNode
    /\ window.closed => requestedNode = NoNode

\* C13: the pending node is the first node requested since the deferred hook
\* last ran, and a call while a request is pending leaves it unchanged; a
\* tick makes at most one calculateLayout call, on that first node and not on
\* a node requested later, and once the hook has run nothing is pending, so
\* that the later node is laid out only if it is requested again.
C13_FirstRequesterWins ==
    /\ []C13_FirstPending
    /\ [][C13_PendingKept]_vars

\* A tick has laid out the root node although the child node was requested
\* after it in the same window.
C13_Witness ==
    /\ pc = "idle"
    /\ window.closed
    /\ tickCalls = 1
    /\ callNode = "root"
    /\ window.first = "root"
    /\ window.lost = "child"

\* ==================================================================== C14
\* The window that ended at the last tick was opened by a call made from
\* inside calculateLayout during the tick before it, and no call has been
\* made since.
ReentrantWindowEnded ==
    /\ pc = "idle"
    /\ window.reentrant
    /\ reqBefore >= 1
    /\ reqSinceTick = 0

\* A call made from inside calculateLayout is recorded and is not executed
\* by the tick that is running.
C14_RecordedNotExecuted ==
    (pc \in {"layout", "tick"} /\ reqSinceTick >= 1) =>
        /\ window.reentrant
        /\ ~window.closed
        /\ requestedNode = window.first
        /\ tickCalls = 1

\* The statement as the specification makes it: the tick that follows a
\* re-entrant request always executes it.
C14_ReentrantNeverLost ==
    /\ C14_RecordedNotExecuted
    /\ ReentrantWindowEnded => (tickCalls = 1 /\ callNode = window.first)

\* C14: the hook empties the slot before it calls calculateLayout, so a call
\* made from inside the layout pass is recorded and not executed by the
\* running tick; the following tick executes it exactly once, provided the
\* deferred hook is still in onFrameSet at that tick and so has run.
C14_ReentrantNextTick ==
    /\ C14_RecordedNotExecuted
    /\ (ReentrantWindowEnded /\ "onFrame" \in Range(ranThisTick)) =>
          /\ tickCalls = 1
          /\ callNode = window.first
          /\ window.closed
          /\ requestedNode = NoNode

\* The tick after a re-entrant request has executed it.
C14_Witness ==
    /\ ReentrantWindowEnded
    /\ "onFrame" \in Range(ranThisTick)
    /\ tickCalls = 1
    /\ callNode = window.first

\* ==================================================================== C15
\* destroyRoot has run while a request was pending.
DestroyedWhilePending ==
    /\ destroyCalls >= 1
    /\ pendingAtDestroy # NoNode

C15_HookRemoved ==
    DestroyedWhilePending =>
        /\ "onFrame" \notin Range(onFrameSet)
        /\ unsubscribed["onFrame"] >= 1
        /\ requestedNode = pendingAtDestroy
        /\ pc # "layout"

C15_NoCallStep ==
    DestroyedWhilePending =>
        /\ tickCalls' <= tickCalls
        /\ (callNode' = callNode \/ callNode' = NoNode)
        /\ requestedNode' = requestedNode

\* C15: once destroyRoot has run while a request was pending, the deferred
\* hook is out of onFrameSet, removed by its teardown callback; no step of a
\* later tick invokes calculateLayout, and no later requestCalculateLayout
\* changes the pending node.
C15_NoLayoutAfterDestroy ==
    /\ []C15_HookRemoved
    /\ [][C15_NoCallStep]_vars

\* After destroyRoot ran with a pending request, a node with an engine handle
\* was requested, and the tick that followed ran no hook and made no call.
C15_Witness ==
    /\ DestroyedWhilePending
    /\ pc = "idle"
    /\ lastCall.op = "requestCalculateLayout"
    /\ yogaNode[lastCall.node]
    /\ lastCall.node # requestedNode
    /\ reqBefore >= 1
    /\ reqSinceTick = 0
    /\ ranThisTick = <<>>
    /\ tickCalls = 0

\* ==================================================================== C16
C16_Order ==
    /\ "onCameraDistanceFrame" \in Range(ranThisTick) =>
          /\ "panelGroupManager" \in Range(ranThisTick)
          /\ Position(ranThisTick, "panelGroupManager")
                < Position(ranThisTick, "onCameraDistanceFrame")
    /\ "gylphGroupManager" \in Range(ranThisTick) =>
          /\ "onCameraDistanceFrame" \in Range(ranThisTick)
          /\ Position(ranThisTick, "onCameraDistanceFrame")
                < Position(ranThisTick, "gylphGroupManager")
    /\ "panelGroupManager" \in Range(ranThisTick) => panelDistance = prevDistance
    /\ "gylphGroupManager" \in Range(ranThisTick) => glyphDistance = cameraDistance
    /\ (pc = "tick" /\ "gylphGroupManager" \in Range(ranThisTick)) =>
          glyphDistance = IF objectCurrent THEN cameraPosition ELSE 0

\* Only a run of the camera-distance hook changes the distance, so that the
\* distance a tick begins with is the one the tick before it computed.
C16_OnlyHookComputes ==
    cameraDistance' # cameraDistance => HookRuns("onCameraDistanceFrame")

\* C16: in a tick the panel group manager's hook runs before the
\* camera-distance hook and the glyph group manager's hook after it; the
\* panel group manager has ordered by the distance the tick began with, which
\* is the one computed in the tick before (0 at construction), the glyph
\* group manager by the distance computed in the same tick.
C16_PanelLagsGlyphCurrent ==
    /\ cameraDistance = 0
    /\ []C16_Order
    /\ [][C16_OnlyHookComputes]_vars

\* A tick in which the panel group manager ordered by the distance of the
\* tick before and the glyph group manager by a different, new distance.
C16_Witness ==
    /\ pc = "tick"
    /\ Len(ranThisTick) = 5
    /\ panelDistance = 1
    /\ glyphDistance = 2

\* ==================================================================== C17
C17_SingleFactor ==
    \A use \in DOMAIN pixelSizeUses :
        pixelSizeUses[use] = IF properties.pixelSize = Undef THEN 2 ELSE properties.pixelSize.n

C17_SetPropertiesStep ==
    \A p \in PropObjects, d \in DefaultObjects :
        setProperties(p, d) =>
            /\ pixelSize' = pixelSize
            /\ pixelSizeUses' = pixelSizeUses
            /\ mergedProperties'.width = mergedProperties.width
            /\ mergedProperties'.height = mergedProperties.height
            /\ rootMatrix' = rootMatrix

\* C17: every consumer of the pixel size gets the value read from the
\* properties createRoot was called with, 0.002 when they have none, and a
\* setProperties call, also one that carries another pixelSize, changes
\* neither that value nor the translated sizes and the root matrix.
C17_PixelSizeFixed ==
    /\ []C17_SingleFactor
    /\ [][C17_SetPropertiesStep]_vars

\* setProperties has written properties with another pixelSize into
\* propertiesSignal; the root still works with the one it was created with.
C17_Witness ==
    /\ lastCall.op = "setProperties"
    /\ propertiesSignal.pixelSize # properties.pixelSize
    /\ properties.pixelSize = Num(4)
    /\ propertiesSignal.pixelSize = Num(2)
    /\ pixelSize = 4
    /\ mergedProperties.height = Num(25000)

\* ==================================================================== C18
\* C18: during a setProperties call a dependent of the two signals is
\* re-evaluated at most once, and what it then reads is the new properties
\* together with the new default properties, never one new value with the
\* other old one.
C18_BatchedWrite ==
    /\ Len(observed.seen) <= 1
    /\ \A i \in 1..Len(observed.seen) :
          observed.seen[i] = <<propertiesSignal, defaultPropertiesSignal>>
    /\ (observed.changed # <<FALSE, FALSE>>) => Len(observed.seen) = 1

\* A setProperties call has changed both signals and the dependent was
\* re-evaluated once.
C18_Witness ==
    /\ lastCall.op = "setProperties"
    /\ observed.changed = <<TRUE, TRUE>>
    /\ Len(observed.seen) = 1

====
